---- MODULE Spec2Model ----
(***************************************************************************)
(* Model of cs_tools: the live task board (cli/layout.py) and the          *)
(* metadata middleware (api/middlewares/metadata.py).                      *)
(*                                                                         *)
(*   Spec       the task board: WorkTask and LiveTasks                     *)
(*   SpecAll    MetadataMiddleware.all(), the paginated aggregation        *)
(*   SpecChunk  columns(), permissions(), dependents(): chunked requests   *)
(*   SpecList   get_edoc_object_list(), get_object_ids_with_tags()         *)
(*   SpecSearch SearchMiddlware.__call__ (middlewares/search.py)           *)
(*   SpecItems  the task board: registration, lookup by name, skip         *)
(*                                                                         *)
(* Time is counted in whole seconds.  A `with task:` statement is modelled *)
(* by WithEnter (Python calls __enter__, and opens the block only if it    *)
(* returns) and WithExit (Python calls __exit__ of the innermost open      *)
(* block, with the exception that left the block, if any).                 *)
(***************************************************************************)
EXTENDS Integers, Sequences, FiniteSets, TLC

VARIABLES
    work_items,   \* LiveTasks._work_items: the sequence of WorkTask objects
    now,          \* the wall clock, dt.datetime.now()
    blocks,       \* the open `with task:` blocks, innermost last (task indexes)
    renderable,   \* LiveTasks._renderable: what the last draw() produced
    started,      \* Live.__enter__ has started the live display
    call,         \* the last call on the board or a task: the exception its block
                  \* was left with (exc) and the one its caller got (raised)
    cycles,       \* per task: __enter__ calls that returned, __exit__ calls, and
                  \* whether skip() was called before the task was ever entered
    lookup        \* the last board[task_name]: the name asked for, the position
                  \* of the task returned (0 if none), the exception raised

VARIABLES
    args,         \* the keyword arguments of the running MetadataMiddleware.all()
    server,       \* ThoughtSpot: the headers it lists per type, and how it pages
    pc,           \* the position of all(): "idle", "loop", "check", "done"
    types,        \* the types the for loop has not finished, current one first
    offset,       \* the offset of the next request
    content,      \* the aggregated records
    track_guids,  \* id -> name of every header seen in this run
    requests,     \* the requests sent to _metadata.list, in order
    fetched,      \* the headers received, in fetch order, with their enrichment
    outcome       \* what all() returned or raised

boardVars == <<work_items, now, blocks, renderable, started, call, cycles, lookup>>

allVars == <<args, server, pc, types, offset, content, track_guids, requests,
             fetched, outcome>>

VARIABLES
    cop,          \* the chunked operation called, with its keyword arguments
    cpc,          \* its position: "idle", "start", "loop", "done"
    phase,        \* the loop it is in: "columns" (the columns() call that
                  \* dependents(include_columns=True) makes first) or "main"
    guids,        \* the list of ids the current loop chunks
    todo,         \* the chunks the current loop has not handled yet
    collected,    \* the list the current loop extends
    sent,         \* the requests sent, in order: endpoint and ids
    got           \* the records of each answer to the current loop, in order

chunkVars == <<cop, cpc, phase, guids, todo, collected, sent, got>>

VARIABLES
    dop,          \* get_edoc_object_list(guids) or get_object_ids_with_tags(tags)
    dserver,      \* ThoughtSpot: the headers that match, per type; how it pages;
                  \* the number of keys of the JSON object it answers with
    dpc,          \* the position: "idle", "start", "loop", "return", "done"
    dtypes,       \* the members of DownloadableContent not finished yet
    doffset,      \* the offset of the next request
    drequests,    \* the requests sent to _metadata.list, in order
    dresult,      \* mapped_guids / object_ids
    dreturned     \* what the call returned

listVars == <<dop, dserver, dpc, dtypes, doffset, drequests, dresult, dreturned>>

VARIABLES
    sargs,        \* SearchMiddlware.__call__: the keywords given (worksheet,
                  \* table, view) and the data source they name
    sheaders,     \* the headers ThoughtSpot lists for the pattern
    spc,          \* the position: "idle", "check", "resolve", "search", "done"
    sguid,        \* guid
    ssent,        \* the requests sent, in order
    soutcome      \* what the call returned or raised

searchVars == <<sargs, sheaders, spc, sguid, ssent, soutcome>>

vars == <<boardVars, allVars, chunkVars, listVars, searchVars>>

(* What the actions of one part leave alone. *)
notBoardVars == <<allVars, chunkVars, listVars, searchVars>>
notAllVars == <<boardVars, chunkVars, listVars, searchVars>>
notChunkVars == <<boardVars, allVars, listVars, searchVars>>
notListVars == <<boardVars, allVars, chunkVars, searchVars>>
notSearchVars == <<boardVars, allVars, chunkVars, listVars>>

----------------------------------------------------------------------------
(* Bounds *)

MaxClock == 2
MaxWith == 2
MaxRecords == 2
MaxChunk == 2
MaxIds == 3
MaxItems == 3
MaxOver == 1
MaxHeaders == 2

(* Python's None where a timestamp or a formatted cell is expected. *)
NoTime == -1

None == "None"
Popcorn == ":popcorn:"
Fire == ":fire:"
CheckMark == ":white_heavy_check_mark:"
CrossMark == ":cross_mark:"

(* The exceptions a work block is left with; None is a normal exit. *)
Exceptions == {None, "RuntimeError"}

----------------------------------------------------------------------------
(* WorkTask *)

(* WorkTask(name, description, _live=live): the dataclass defaults and
   __post_init__. live is TRUE when a Live was handed over. *)
NewWorkTask(name, description, live) ==
    [name |-> name, description |-> description, status |-> Popcorn,
     live |-> live, total_duration |-> 0, started_at |-> NoTime,
     skipped |-> FALSE, stopped |-> FALSE]

(* WorkTask.duration raises TypeError: now() - None. *)
DurationRaises(t) == ~t.stopped /\ t.started_at = NoTime

(* duration without the test on _stopped. *)
Duration_NeverFrozen(t, clock) == (clock - t.started_at) + t.total_duration

(* WorkTask.duration, in seconds, read at time clock. *)
Duration(t, clock) ==
    IF t.stopped THEN t.total_duration
    ELSE (clock - t.started_at) + t.total_duration

(* WorkTask.values: the row of the task. A blank cell is NoTime. *)
Values(t, clock) ==
    <<t.status,
      IF t.started_at = NoTime THEN NoTime ELSE t.started_at,
      IF t.started_at = NoTime THEN NoTime ELSE Duration(t, clock),
      t.description>>

(* _default_layout / LiveTasks.layout: one row per task, in list order. *)
Layout(items, clock) == [i \in 1..Len(items) |-> Values(items[i], clock)]

(* WorkTask.skip *)
SkipTask(t) == [t EXCEPT !.skipped = TRUE, !.status = None]

(* WorkTask.__enter__ up to the refresh. *)
EnterTask(t, clock) == [t EXCEPT !.status = Fire, !.started_at = clock]

(* __exit__ with the status written whether or not the task was skipped. *)
ExitStatus_NoSkipGuard(t, exc) == IF exc = None THEN CheckMark ELSE CrossMark

(* __exit__ with the test on the exception inverted. *)
ExitStatus_Inverted(t, exc) ==
    IF ~t.skipped
    THEN (IF exc = None THEN CrossMark ELSE CheckMark)
    ELSE t.status

(* The status __exit__ writes. *)
ExitStatus(t, exc) ==
    IF ~t.skipped
    THEN (IF exc = None THEN CheckMark ELSE CrossMark)
    ELSE t.status

(* WorkTask.__exit__ up to the refresh. *)
ExitTask(t, exc, clock) ==
    [t EXCEPT !.status = ExitStatus(t, exc),
              !.total_duration = t.total_duration + (clock - t.started_at),
              !.stopped = TRUE]

(* What __exit__ returns, as Python's `with` reads it: None is falsy, so the
   exception that left the block is not suppressed. *)
ExitSuppresses == FALSE

(* What the caller of the `with` statement sees after __exit__ returned. *)
Propagated(exc) == IF ExitSuppresses THEN None ELSE exc

----------------------------------------------------------------------------
(* LiveTasks *)

(* One element of the list handed to LiveTasks: a (name, description) tuple,
   or a WorkTask the caller built (bound to a Live or not). *)
TupleItem(name) == [kind |-> "tuple", name |-> name, live |-> FALSE]
TaskItem(name, live) == [kind |-> "task", name |-> name, live |-> live]

ItemLists ==
    { <<TupleItem("a")>>,
      <<TaskItem("a", FALSE)>>,
      <<TupleItem("a"), TaskItem("b", TRUE)>> }

(* The work_items setter: every item is appended; a tuple becomes a WorkTask
   bound to this board, a WorkTask is appended as it is. *)
RECURSIVE SetWorkItems(_, _)
SetWorkItems(old, items) ==
    IF items = <<>> THEN old
    ELSE LET work_item == Head(items)
             task == IF work_item.kind = "tuple"
                     THEN NewWorkTask(work_item.name, work_item.name, TRUE)
                     ELSE NewWorkTask(work_item.name, work_item.name, work_item.live)
         IN SetWorkItems(Append(old, task), Tail(items))

(* The `with` statements executed so far that opened their block. *)
RECURSIVE SumEnters(_, _)
SumEnters(c, n) == IF n = 0 THEN 0 ELSE c[n].enters + SumEnters(c, n - 1)

WithCount == SumEnters(cycles, Len(cycles))

NoCall == [op |-> "none", task |-> 0, exc |-> None, raised |-> None, refreshed |-> FALSE]

NoLookup == [name |-> None, index |-> 0, raised |-> None]

(* LiveTasks.__init__ *)
InitBoard ==
    /\ \E items \in ItemLists : work_items = SetWorkItems(<<>>, items)
    /\ now = 0
    /\ blocks = <<>>
    /\ renderable = <<>>
    /\ started = FALSE
    /\ call = NoCall
    /\ cycles = [i \in 1..Len(work_items) |->
                    [enters |-> 0, exits |-> 0, skipped_early |-> FALSE]]
    /\ lookup = NoLookup

(* The clock advances. *)
Tick ==
    /\ now < MaxClock
    /\ now' = now + 1
    /\ UNCHANGED <<work_items, blocks, renderable, started, call, cycles, lookup>>
    /\ UNCHANGED notBoardVars

(* LiveTasks.__enter__: draw, then Live.__enter__ starts the display. *)
BoardEnter ==
    /\ ~started
    /\ renderable' = Layout(work_items, now)
    /\ started' = TRUE
    /\ call' = [op |-> "board_enter", task |-> 0, exc |-> None, raised |-> None, refreshed |-> TRUE]
    /\ UNCHANGED <<work_items, now, blocks, cycles, lookup>>
    /\ UNCHANGED notBoardVars

(* task.skip(): no refresh. *)
Skip(i) ==
    /\ work_items' = [work_items EXCEPT ![i] = SkipTask(@)]
    /\ cycles' = [cycles EXCEPT ![i].skipped_early =
                                 @ \/ work_items[i].started_at = NoTime]
    /\ call' = [op |-> "skip", task |-> i, exc |-> None, raised |-> None, refreshed |-> FALSE]
    /\ UNCHANGED <<now, blocks, renderable, started, lookup>>
    /\ UNCHANGED notBoardVars

(* `with task:` reaches task.__enter__(). Without a Live, self._live.refresh()
   raises AttributeError after the status and the timestamp were written, and
   the block is not opened. *)
WithEnter(i) ==
    /\ WithCount < MaxWith
    /\ work_items' = [work_items EXCEPT ![i] = EnterTask(@, now)]
    /\ IF work_items[i].live
       THEN /\ renderable' = Layout(work_items', now)
            /\ blocks' = Append(blocks, i)
            /\ cycles' = [cycles EXCEPT ![i].enters = @ + 1]
            /\ call' = [op |-> "enter", task |-> i, exc |-> None, raised |-> None, refreshed |-> TRUE]
       ELSE /\ call' = [op |-> "enter", task |-> i, exc |-> None,
                        raised |-> "AttributeError", refreshed |-> FALSE]
            /\ UNCHANGED <<renderable, blocks, cycles>>
    /\ UNCHANGED <<now, started, lookup>>
    /\ UNCHANGED notBoardVars

(* The innermost block is left, normally (exc = None) or by an exception:
   task.__exit__(exc_type, exc, trace). It returns None, which is falsy, so
   the exception goes on to the caller. *)
WithExit(exc) ==
    /\ blocks # <<>>
    /\ LET i == blocks[Len(blocks)] IN
        /\ work_items' = [work_items EXCEPT ![i] = ExitTask(@, exc, now)]
        /\ renderable' = Layout(work_items', now)
        /\ cycles' = [cycles EXCEPT ![i].exits = @ + 1]
        /\ call' = [op |-> "exit", task |-> i, exc |-> exc,
                    raised |-> Propagated(exc), refreshed |-> TRUE]
    /\ blocks' = SubSeq(blocks, 1, Len(blocks) - 1)
    /\ UNCHANGED <<now, started, lookup>>
    /\ UNCHANGED notBoardVars

(* The lists assigned to board.work_items after construction: tuples and
   WorkTask objects not on the board yet, under names new or already taken. *)
AssignedLists ==
    { <<TupleItem("a")>>, <<TupleItem("b")>>, <<TaskItem("c", TRUE)>>,
      <<TupleItem("c"), TupleItem("a")>> }

(* board.work_items = items: the setter appends to the list the board has. *)
AssignWorkItems(items) ==
    /\ Len(work_items) + Len(items) <= MaxItems
    /\ work_items' = SetWorkItems(work_items, items)
    /\ cycles' = cycles \o [k \in 1..Len(items) |->
                              [enters |-> 0, exits |-> 0, skipped_early |-> FALSE]]
    /\ call' = [op |-> "assign", task |-> 0, exc |-> None, raised |-> None,
                refreshed |-> FALSE]
    /\ UNCHANGED <<now, blocks, renderable, started, lookup>>
    /\ UNCHANGED notBoardVars

(* The loop of __getitem__ with its test dropped: the first task is returned
   whatever its name. *)
FindItem_AnyName(items, task_name, k) ==
    IF k > Len(items) THEN 0 ELSE k

(* The loop of __getitem__ from position k on: the position of the first task
   named task_name, 0 when the loop ends without one. *)
RECURSIVE FindItem(_, _, _)
FindItem(items, task_name, k) ==
    IF k > Len(items) THEN 0
    ELSE IF items[k].name = task_name THEN k
    ELSE FindItem(items, task_name, k + 1)

(* The names asked for: registered or not. *)
TaskNames == {"a", "b", "c", "z"}

(* board[task_name] *)
GetItem(task_name) ==
    /\ LET k == FindItem(work_items, task_name, 1)
       IN lookup' = [name |-> task_name, index |-> k,
                     raised |-> IF k = 0 THEN "KeyError" ELSE None]
    /\ UNCHANGED <<work_items, now, blocks, renderable, started, call, cycles>>
    /\ UNCHANGED notBoardVars

NextBoard ==
    \/ Tick
    \/ BoardEnter
    \/ \E i \in 1..Len(work_items) : Skip(i)
    \/ \E i \in 1..Len(work_items) : WithEnter(i)
    \/ \E exc \in Exceptions : WithExit(exc)

----------------------------------------------------------------------------
(* MetadataMiddleware.all() *)

PINBOARD == "PINBOARD_ANSWER_BOOK"
QUESTION == "QUESTION_ANSWER_BOOK"
TABLE == "LOGICAL_TABLE"
COLUMN == "LOGICAL_COLUMN"

(* The authors whose content exclude_system_content drops. *)
SystemAuthors == {"system", "tsadmin"}

(* A header of the listing endpoint. own holds the keys 'type' and 'context'
   when the server record defines them itself. *)
Header(id, owner, author, own) ==
    LET h == [id |-> id, name |-> "name of " \o id, owner |-> owner,
              authorName |-> author]
    IN [k \in DOMAIN h \cup DOMAIN own |-> IF k \in DOMAIN own THEN own[k] ELSE h[k]]

NoKeys == [k \in {} |-> None]

(* The headers ThoughtSpot may hold, per type. A column is owned by a table
   (c1, c4), by another column (c2) or by itself (c3); g0 is listed nowhere. *)
HeadersOf(type_) ==
    CASE type_ = PINBOARD ->
           { Header("p1", "g0", "alice", NoKeys),
             Header("p2", "g0", "system", NoKeys) }
      [] type_ = QUESTION ->
           { Header("q1", "g0", "tsadmin", NoKeys) }
      [] type_ = TABLE ->
           { Header("t1", "g0", "alice", NoKeys),
             Header("t2", "g0", "system", [type |-> "WORKSHEET"]) }
      [] type_ = COLUMN ->
           { Header("c1", "t1", "alice", NoKeys),
             Header("c2", "c1", "alice", NoKeys),
             Header("c3", "c3", "system", NoKeys),
             Header("c4", "t2", "alice", [context |-> "server context"]) }

AllTypes == {PINBOARD, QUESTION, TABLE, COLUMN}

(* tags and category as the caller passes them: tags is None, one string or a
   list of strings. *)
FilterArgs ==
    { [tags |-> [kind |-> "none", items |-> <<>>], category |-> "all"],
      [tags |-> [kind |-> "str", items |-> <<"t1">>], category |-> "yours"],
      [tags |-> [kind |-> "list", items |-> <<"t1", "t2">>], category |-> "all"],
      [tags |-> [kind |-> "list", items |-> <<>>], category |-> "favorites"] }

(* if isinstance(tags, str): tags = [tags] *)
NormalizeTags(tags) ==
    IF tags.kind = "str" THEN [kind |-> "list", items |-> tags.items] ELSE tags

(* The types listed, in order; LOGICAL_COLUMN last and only on request. *)
TypesOf(include_columns) ==
    <<PINBOARD, QUESTION, TABLE>> \o (IF include_columns THEN <<COLUMN>> ELSE <<>>)

Min(a, b) == IF a < b THEN a ELSE b

Range(seq) == {seq[k] : k \in 1..Len(seq)}

(* The server's answer to _metadata.list(type, batchsize, offset): the headers
   from offset on, at most batchsize of them, and isLastBatch. An eager server
   flags the page that reaches the end of the listing; a lazy one flags the
   first page that comes back short. *)
ListPage(srv, type_, batchsize, off) ==
    LET all == srv.catalog[type_]
        last == Min(off + batchsize, Len(all))
    IN [headers |-> SubSeq(all, off + 1, last),
        isLastBatch |-> IF srv.eager THEN off + batchsize >= Len(all)
                        ELSE off + batchsize > Len(all)]

(* track_guids.get(key) *)
Get(track, key) == IF key \in DOMAIN track THEN track[key] ELSE None

(* track_guids[key] = value *)
Put(track, key, value) ==
    [k \in DOMAIN track \cup {key} |-> IF k = key THEN value ELSE track[k]]

(* The context looked up in a table that already holds every header of the
   listing, as a second pass over the result would. *)
InjectedContext_SecondPass(type_, d, track) ==
    IF type_ = COLUMN
    THEN (IF \E t \in AllTypes : \E k \in 1..Len(server.catalog[t]) :
                 server.catalog[t][k].id = d.owner
          THEN "name of " \o d.owner ELSE None)
    ELSE None

(* The context all() injects for header d of a listing of type_. *)
InjectedContext(type_, d, track) ==
    IF type_ = COLUMN THEN Get(track, d.owner) ELSE None

(* The dict built with **d first: the injected keys win. *)
Enrich_InjectedWins(type_, d, track) ==
    LET injected == [type |-> type_, context |-> InjectedContext(type_, d, track)]
    IN [k \in DOMAIN injected \cup DOMAIN d |->
            IF k \in DOMAIN injected THEN injected[k] ELSE d[k]]

(* {'type': type_, 'context': ..., **d}: the keys of d win. *)
Enrich(type_, d, track) ==
    LET injected == [type |-> type_, context |-> InjectedContext(type_, d, track)]
    IN [k \in DOMAIN injected \cup DOMAIN d |->
            IF k \in DOMAIN d THEN d[k] ELSE injected[k]]

(* The for loop over data['headers']: each header is tracked, then enriched. *)
RECURSIVE EnrichPage(_, _, _)
EnrichPage(type_, headers, track) ==
    IF headers = <<>> THEN [to_extend |-> <<>>, track |-> track]
    ELSE LET d == Head(headers)
             tracked == Put(track, d.id, d.name)
             rest == EnrichPage(type_, Tail(headers), tracked)
         IN [to_extend |-> <<Enrich(type_, d, tracked)>> \o rest.to_extend,
             track |-> rest.track]

IsUserContent(answer) == answer.authorName \notin SystemAuthors

(* The filter kept for system content and dropped for the rest. *)
Filter_Inverted(to_extend, exclude_system_content) ==
    IF exclude_system_content
    THEN SelectSeq(to_extend, LAMBDA answer : ~IsUserContent(answer))
    ELSE to_extend

(* The exclusion filter of one page. *)
Filter(to_extend, exclude_system_content) ==
    IF exclude_system_content
    THEN SelectSeq(to_extend, IsUserContent)
    ELSE to_extend

(* The loop left on the first page instead of the last. *)
IsLast_Negated(data) == ~data.isLastBatch

(* if data['isLastBatch']: break *)
IsLast(data) == data.isLastBatch

(* ', '.join(tags), as the pieces it concatenates. *)
RECURSIVE Join(_, _)
Join(sep, items) ==
    IF items = <<>> THEN <<>>
    ELSE IF Len(items) = 1 THEN items
    ELSE <<Head(items), sep>> \o Join(sep, Tail(items))

(* The reason without the tags. *)
Reason_NoTags(category, exclude_system_content, tags) ==
    <<"'", category, "' category (">>
    \o <<IF exclude_system_content THEN "excluding " ELSE "including ">>
    \o <<"admin-generated content)">>

(* rzn: the reason of ContentDoesNotExist, as the pieces it concatenates. *)
Reason(category, exclude_system_content, tags) ==
    <<"'", category, "' category (">>
    \o <<IF exclude_system_content THEN "excluding " ELSE "including ">>
    \o <<"admin-generated content)">>
    \o (IF tags.kind = "none" THEN <<>> ELSE <<" and tags: ">> \o Join(", ", tags.items))

NoOutcome == [kind |-> "none", value |-> <<>>, reason |-> <<>>]

IdleBoard ==
    /\ work_items = <<>> /\ now = 0 /\ blocks = <<>> /\ renderable = <<>>
    /\ started = FALSE /\ call = NoCall /\ cycles = <<>> /\ lookup = NoLookup

IdleAll ==
    /\ args = [include_columns |-> FALSE] /\ server = [eager |-> TRUE]
    /\ pc = "idle" /\ types = <<>> /\ offset = 0 /\ content = <<>>
    /\ track_guids = <<>> /\ requests = <<>> /\ fetched = <<>>
    /\ outcome = NoOutcome

(* The headers of one type: n of them, in any order, repeats allowed. *)
Listings(type_, n) == [1..n -> HeadersOf(type_)]

(* all(include_columns, tags, category, exclude_system_content, chunksize) is
   called on a server that holds at most MaxRecords headers; the state is the
   one before the for loop. The columns of the server are left out when
   LOGICAL_COLUMN is not listed: no request reads them. *)
InitAll ==
    /\ \E f \in FilterArgs, ic \in BOOLEAN, ex \in BOOLEAN, cs \in 1..MaxChunk :
          /\ args = [include_columns |-> ic, tags |-> NormalizeTags(f.tags),
                     category |-> f.category, exclude_system_content |-> ex,
                     chunksize |-> cs]
          /\ types = TypesOf(ic)
    /\ \E np, nq, nt, nc \in 0..MaxRecords :
          /\ np + nq + nt + nc <= MaxRecords
          /\ nc > 0 => args.include_columns
          /\ \E p \in Listings(PINBOARD, np), q \in Listings(QUESTION, nq),
                t \in Listings(TABLE, nt), c \in Listings(COLUMN, nc),
                eager \in BOOLEAN :
                server = [catalog |-> [type_ \in AllTypes |->
                                          CASE type_ = PINBOARD -> p
                                            [] type_ = QUESTION -> q
                                            [] type_ = TABLE -> t
                                            [] type_ = COLUMN -> c],
                          eager |-> eager]
    /\ pc = "loop"
    /\ offset = 0
    /\ content = <<>>
    /\ track_guids = <<>>
    /\ requests = <<>>
    /\ fetched = <<>>
    /\ outcome = NoOutcome

(* One pass of the while loop: a page is requested, its headers are tracked and
   enriched, the offset moves by the number of headers received, the page is
   filtered and appended; on the last page the for loop moves to the next type
   with offset 0, and leaves the loops after the last type. *)
FetchPage ==
    /\ pc = "loop"
    /\ LET type_ == Head(types)
           data == ListPage(server, type_, args.chunksize, offset)
           page == EnrichPage(type_, data.headers, track_guids)
           to_extend == page.to_extend
           n == Len(requests) + 1
       IN /\ requests' = Append(requests, [type |-> type_, offset |-> offset,
                                           batchsize |-> args.chunksize])
          /\ track_guids' = page.track
          /\ fetched' = fetched \o
                 [k \in 1..Len(to_extend) |->
                     [page |-> n, type_ |-> type_, raw |-> data.headers[k],
                      rec |-> to_extend[k]]]
          /\ content' = content \o Filter(to_extend, args.exclude_system_content)
          /\ IF IsLast(data)
             THEN /\ types' = Tail(types)
                  /\ offset' = 0
                  /\ pc' = IF Tail(types) = <<>> THEN "check" ELSE "loop"
             ELSE /\ types' = types
                  /\ offset' = offset + Len(to_extend)
                  /\ pc' = "loop"
    /\ UNCHANGED <<args, server, outcome>>
    /\ UNCHANGED notAllVars

(* if not content: raise ContentDoesNotExist(reason=rzn); return content *)
Finish ==
    /\ pc = "check"
    /\ pc' = "done"
    /\ outcome' =
          IF content = <<>>
          THEN [kind |-> "ContentDoesNotExist", value |-> content,
                reason |-> Reason(args.category, args.exclude_system_content, args.tags)]
          ELSE [kind |-> "returned", value |-> content, reason |-> <<>>]
    /\ UNCHANGED <<args, server, types, offset, content, track_guids, requests, fetched>>
    /\ UNCHANGED notAllVars

NextAll == FetchPage \/ Finish

----------------------------------------------------------------------------
(* columns(), permissions(), dependents() *)

(* cs_tools.util.chunks(guids, n=n): the list cut into consecutive chunks of n
   ids, the last one shorter when n does not divide the length. *)
RECURSIVE chunks(_, _)
chunks(ids, n) ==
    IF ids = <<>> THEN <<>>
    ELSE IF Len(ids) <= n THEN <<ids>>
    ELSE <<SubSeq(ids, 1, n)>> \o chunks(SubSeq(ids, n + 1, Len(ids)), n)

(* The chunksize columns() runs with when dependents() calls it. *)
ColumnsChunksize == 50

(* The ids a caller may pass, in the order the server keeps them. *)
ServerOrder == <<"g3", "c1", "g1", "g2">>

Guids == Range(ServerOrder)

(* The server's data: the columns of an object, the principals an object is
   shared with, and the content built on an object. *)
ColumnsOf(id) ==
    CASE id = "g1" -> <<[header |-> [id |-> "c1"]], [header |-> [id |-> "c2"]]>>
      [] id = "g2" -> <<[header |-> [id |-> "c3"]]>>
      [] OTHER -> <<>>

PermissionsOf(id) ==
    CASE id = "g1" -> << <<"u1", "READ_ONLY">>, <<"grp1", "MODIFY">> >>
      [] id = "g2" -> << <<"grp1", "READ_ONLY">> >>
      [] OTHER -> <<>>

DependentsOf(id) ==
    CASE id = "g1" -> << <<QUESTION, [id |-> "a1"]>>, <<PINBOARD, [id |-> "pb1"]>> >>
      [] id = "c1" -> << <<QUESTION, [id |-> "a1"]>> >>
      [] id = "c3" -> << <<PINBOARD, [id |-> "pb2"]>> >>
      [] OTHER -> <<>>

(* ts.user.all(): the ids of the users; every other principal is a group. *)
UserGuids == {"u1"}

RECURSIVE Flatten(_)
Flatten(seqs) == IF seqs = <<>> THEN <<>> ELSE Head(seqs) \o Flatten(Tail(seqs))

(* The ids of a request in the order the server answers them: its own. *)
Answered(ids) == SelectSeq(ServerOrder, LAMBDA id : id \in Range(ids))

(* r.json()['storables']['columns'] of metadata.details(id=ids) *)
DetailsColumns(ids) ==
    Flatten([k \in 1..Len(Answered(ids)) |-> ColumnsOf(Answered(ids)[k])])

(* The records permissions() builds from one answer of
   security.metadata_permissions(id=ids). *)
PermissionRecords(ids, permission_type) ==
    Flatten([k \in 1..Len(Answered(ids)) |->
        LET id == Answered(ids)[k]
            perms == PermissionsOf(id)
        IN [j \in 1..Len(perms) |->
               IF perms[j][1] \in UserGuids
               THEN [object_guid |-> id, permission_type |-> permission_type,
                     share_mode |-> perms[j][2], shared_to_user_guid |-> perms[j][1]]
               ELSE [object_guid |-> id, permission_type |-> permission_type,
                     share_mode |-> perms[j][2], shared_to_group_guid |-> perms[j][1]]]])

(* The records dependents() builds from one answer of
   _dependency.list_dependents(id=ids). *)
DependentRecords(ids) ==
    Flatten([k \in 1..Len(Answered(ids)) |->
        LET id == Answered(ids)[k]
            deps == DependentsOf(id)
        IN [j \in 1..Len(deps) |->
               [parent_guid |-> id, type |-> deps[j][1], id |-> deps[j][2].id]]])

(* The calls made: columns(guids, chunksize), permissions(guids, chunksize),
   and dependents(guids, for_columns, include_columns, chunksize). *)
Operations ==
    { [name |-> "columns", for_columns |-> FALSE, include_columns |-> FALSE],
      [name |-> "permissions", for_columns |-> FALSE, include_columns |-> FALSE],
      [name |-> "dependents", for_columns |-> FALSE, include_columns |-> FALSE],
      [name |-> "dependents", for_columns |-> TRUE, include_columns |-> FALSE],
      [name |-> "dependents", for_columns |-> FALSE, include_columns |-> TRUE] }

(* The endpoint a loop sends its requests to. *)
Endpoint(op, ph) ==
    IF ph = "columns" \/ op.name = "columns" THEN "metadata.details"
    ELSE IF op.name = "permissions" THEN "security.metadata_permissions"
    ELSE "_dependency.list_dependents"

(* The id= argument of the request for one chunk: columns() passes the whole
   list, permissions() and dependents() pass the chunk. *)
RequestIds(op, ph, all, chunk) ==
    IF Endpoint(op, ph) = "metadata.details" THEN all ELSE chunk

(* The records one answer adds to the list. *)
AnswerRecords(op, ph, ids) ==
    CASE Endpoint(op, ph) = "metadata.details" -> DetailsColumns(ids)
      [] Endpoint(op, ph) = "security.metadata_permissions" ->
             PermissionRecords(ids, "explicit")
      [] OTHER -> DependentRecords(ids)

(* The answer put in front of the list instead of at its end. *)
Extend_InFront(list, records) == records \o list

(* list.extend(records), or one append per record. *)
Extend(list, records) == list \o records

IdleChunk ==
    /\ cop = [name |-> "none"] /\ cpc = "idle" /\ phase = "main" /\ guids = <<>>
    /\ todo = <<>> /\ collected = <<>> /\ sent = <<>> /\ got = <<>>

(* The lists of at most n ids. *)
GuidLists(n) == UNION {[1..k -> Guids] : k \in 0..n}

(* One of the three operations is called with a list of at most MaxIds ids. *)
InitChunk ==
    /\ \E op \in Operations, cs \in 1..MaxChunk :
          cop = [name |-> op.name, for_columns |-> op.for_columns,
                 include_columns |-> op.include_columns, chunksize |-> cs]
    /\ guids \in GuidLists(MaxIds)
    /\ cpc = "start"
    /\ phase = "main"
    /\ todo = <<>>
    /\ collected = <<>>
    /\ sent = <<>>
    /\ got = <<>>

(* The statements before the loop: permissions() lists the users;
   dependents(include_columns=True) calls columns(guids), whose loop runs
   first, with the default chunksize; then chunks() cuts the list. *)
StartChunks ==
    /\ cpc = "start"
    /\ cpc' = "loop"
    /\ phase' = IF cop.name = "dependents" /\ cop.include_columns
                THEN "columns" ELSE "main"
    /\ todo' = chunks(guids, IF phase' = "columns" THEN ColumnsChunksize
                             ELSE cop.chunksize)
    /\ sent' = IF cop.name = "permissions"
               THEN <<[endpoint |-> "user.all", ids |-> <<>>]>> ELSE <<>>
    /\ UNCHANGED <<cop, guids, collected, got>>
    /\ UNCHANGED notChunkVars

(* One pass of `for chunk in chunks(...)`: one request, whose records are
   added to the list. *)
ChunkRequest ==
    /\ cpc = "loop"
    /\ todo # <<>>
    /\ LET ids == RequestIds(cop, phase, guids, Head(todo))
           records == AnswerRecords(cop, phase, ids)
       IN /\ sent' = Append(sent, [endpoint |-> Endpoint(cop, phase), ids |-> ids])
          /\ got' = Append(got, records)
          /\ collected' = Extend(collected, records)
    /\ todo' = Tail(todo)
    /\ UNCHANGED <<cop, cpc, phase, guids>>
    /\ UNCHANGED notChunkVars

(* The loop is exhausted. columns() called by dependents() returns: the ids of
   its columns become the list to chunk, and the main loop starts from an
   empty list. Otherwise the operation returns the list. *)
EndOfChunks ==
    /\ cpc = "loop"
    /\ todo = <<>>
    /\ IF phase = "columns"
       THEN /\ guids' = [k \in 1..Len(collected) |-> collected[k].header.id]
            /\ todo' = chunks(guids', cop.chunksize)
            /\ phase' = "main"
            /\ collected' = <<>>
            /\ got' = <<>>
            /\ cpc' = "loop"
       ELSE /\ cpc' = "done"
            /\ UNCHANGED <<guids, todo, phase, collected, got>>
    /\ UNCHANGED <<cop, sent>>
    /\ UNCHANGED notChunkVars

NextChunk == StartChunks \/ ChunkRequest \/ EndOfChunks

----------------------------------------------------------------------------
(* get_edoc_object_list(), get_object_ids_with_tags() *)

(* batchsize=500 in both loops. *)
ListBatchsize == 500

(* `for metadata_type in DownloadableContent`, by value. *)
DownloadableContent == <<QUESTION, PINBOARD, TABLE>>

(* The values of MetadataObjectSubtype. *)
MetadataObjectSubtype ==
    {"FORMULA", "CALENDAR_TABLE", "ONE_TO_ONE_LOGICAL", "USER_DEFINED", "WORKSHEET",
     "AGGR_WORKSHEET", "MATERIALIZED_VIEW", "SQL_VIEW"}

(* map_subtype_to_type *)
map_subtype_to_type(subtype) ==
    IF subtype \in MetadataObjectSubtype THEN TABLE ELSE subtype

(* The k-th header the server lists for a type; metadata.get("type") is the
   subtype of a table, and None for a header without that key. *)
ListedHeader(type_, k) ==
    [id |-> <<type_, k>>,
     type |-> IF type_ # TABLE THEN None
              ELSE IF k % 3 = 1 THEN "WORKSHEET"
              ELSE IF k % 3 = 2 THEN "ONE_TO_ONE_LOGICAL"
              ELSE None]

(* The listings the server may hold for one type: a few headers, or a few
   more than one batch. *)
ListingSizes == (0..MaxOver) \cup {ListBatchsize + k : k \in 0..MaxOver}

(* The record each loop appends for one header. *)
ListedRecord(op, metadata_type, metadata) ==
    IF op.name = "get_object_ids_with_tags" THEN metadata.id
    ELSE IF metadata_type = TABLE
         THEN [id |-> metadata.id, type |-> map_subtype_to_type(metadata.type)]
         ELSE [id |-> metadata.id, type |-> metadata_type]

NoReturn == [kind |-> "none", list |-> <<>>, set |-> {}]

IdleList ==
    /\ dop = [name |-> "none"] /\ dserver = [keys |-> 0] /\ dpc = "idle"
    /\ dtypes = <<>> /\ doffset = 0 /\ drequests = <<>> /\ dresult = <<>>
    /\ dreturned = NoReturn

(* One of the two operations is called; at most one type has more headers
   than a batch holds. The answer of the server is a JSON object with the keys
   'headers' and 'isLastBatch', and possibly one more. *)
InitList ==
    /\ dop \in { [name |-> "get_edoc_object_list", empty |-> FALSE],
                 [name |-> "get_edoc_object_list", empty |-> TRUE],
                 [name |-> "get_object_ids_with_tags", empty |-> FALSE] }
    /\ \E sizes \in [Range(DownloadableContent) -> ListingSizes],
          keys \in 2..3, eager \in BOOLEAN :
          /\ Cardinality({t \in DOMAIN sizes : sizes[t] >= ListBatchsize}) <= 1
          /\ dserver = [catalog |-> [t \in Range(DownloadableContent) |->
                                        [k \in 1..sizes[t] |-> ListedHeader(t, k)]],
                        eager |-> eager, keys |-> keys]
    /\ dpc = "start"
    /\ dtypes = <<>>
    /\ doffset = 0
    /\ drequests = <<>>
    /\ dresult = <<>>
    /\ dreturned = NoReturn

(* Up to the first request: get_edoc_object_list returns [] for an empty list
   of guids; otherwise the for loop starts on the first type with offset 0. *)
ListBegin ==
    /\ dpc = "start"
    /\ IF dop.name = "get_edoc_object_list" /\ dop.empty
       THEN /\ dpc' = "done"
            /\ dreturned' = [kind |-> "list", list |-> <<>>, set |-> {}]
            /\ UNCHANGED dtypes
       ELSE /\ dpc' = "loop"
            /\ dtypes' = DownloadableContent
            /\ UNCHANGED dreturned
    /\ UNCHANGED <<dop, dserver, doffset, drequests, dresult>>
    /\ UNCHANGED notListVars

(* One pass of the while loop: the request, offset += len(data) where data is
   the JSON object of the answer, one record appended per header, and on the
   last batch the next type with offset 0; get_edoc_object_list sends one more
   request, without type and offset, after the loop of each type. *)
ListRequest ==
    /\ dpc = "loop"
    /\ LET metadata_type == Head(dtypes)
           data == ListPage(dserver, metadata_type, ListBatchsize, doffset)
           request == [kind |-> "page", type |-> metadata_type, offset |-> doffset,
                       batchsize |-> ListBatchsize, returned |-> Len(data.headers)]
           after == [kind |-> "fetchids", type |-> None, offset |-> 0,
                     batchsize |-> 0, returned |-> 0]
       IN /\ dresult' = dresult \o
                 [k \in 1..Len(data.headers) |->
                     ListedRecord(dop, metadata_type, data.headers[k])]
          /\ IF IsLast(data)
             THEN /\ drequests' = drequests \o <<request>> \o
                        (IF dop.name = "get_edoc_object_list" THEN <<after>> ELSE <<>>)
                  /\ dtypes' = Tail(dtypes)
                  /\ doffset' = 0
                  /\ dpc' = IF Tail(dtypes) = <<>> THEN "return" ELSE "loop"
             ELSE /\ drequests' = Append(drequests, request)
                  /\ dtypes' = dtypes
                  /\ doffset' = doffset + dserver.keys
                  /\ dpc' = "loop"
    /\ UNCHANGED <<dop, dserver, dreturned>>
    /\ UNCHANGED notListVars

(* return mapped_guids / return list(set(object_ids)) *)
ListReturn ==
    /\ dpc = "return"
    /\ dpc' = "done"
    /\ dreturned' = IF dop.name = "get_object_ids_with_tags"
                    THEN [kind |-> "set", list |-> <<>>, set |-> Range(dresult)]
                    ELSE [kind |-> "list", list |-> dresult, set |-> {}]
    /\ UNCHANGED <<dop, dserver, dtypes, doffset, drequests, dresult>>
    /\ UNCHANGED notListVars

NextList == ListBegin \/ ListRequest \/ ListReturn

----------------------------------------------------------------------------
(* SearchMiddlware.__call__ *)

(* util.is_valid_guid: the data source is given by GUID, not by name. *)
is_valid_guid(guid) == guid.kind = "guid"

(* str.casefold on the names in use. *)
casefold(name) ==
    CASE name = "Sales" -> "sales"
      [] name = "SALES" -> "sales"
      [] name = "Sales Q1" -> "sales q1"
      [] OTHER -> name

(* The data sources a caller names: by GUID, or by name. *)
DataSources ==
    { [kind |-> "guid", value |-> "g1"], [kind |-> "name", value |-> "Sales"],
      [kind |-> "name", value |-> "sales"] }

(* The LOGICAL_TABLE headers whose name matches the pattern 'sales'. *)
PatternHeaders ==
    { [id |-> "g1", name |-> "Sales"], [id |-> "g2", name |-> "SALES"],
      [id |-> "g3", name |-> "Sales Q1"], [id |-> "g4", name |-> "sales"] }

(* data = [_ for _ in data['headers'] if _['name'].casefold() == guid.casefold()] *)
NamedLike(headers, guid) ==
    SelectSeq(headers, LAMBDA h : casefold(h.name) = casefold(guid.value))

NoResult == [kind |-> "none"]

IdleSearch ==
    /\ sargs = [given |-> 0] /\ sheaders = <<>> /\ spc = "idle"
    /\ sguid = None /\ ssent = <<>> /\ soutcome = NoResult

(* ts.search(query, worksheet=, table=, view=) is called with `given` of the
   three keywords set, each to the same data source; the server lists at most
   MaxHeaders headers for the pattern. *)
InitSearch ==
    /\ \E given \in 0..3, source \in DataSources :
          sargs = [given |-> given, source |-> source]
    /\ sheaders \in UNION {[1..n -> PatternHeaders] : n \in 0..MaxHeaders}
    /\ spc = "check"
    /\ sguid = None
    /\ ssent = <<>>
    /\ soutcome = NoResult

(* The two tests on (worksheet, table, view).count(None), then
   guid = worksheet or table or view. *)
SearchCheck ==
    /\ spc = "check"
    /\ IF 3 - sargs.given = 3 \/ 3 - sargs.given # 2
       THEN /\ spc' = "done"
            /\ soutcome' = [kind |-> "TypeError"]
            /\ UNCHANGED sguid
       ELSE /\ spc' = IF is_valid_guid(sargs.source) THEN "search" ELSE "resolve"
            /\ sguid' = sargs.source.value
            /\ UNCHANGED soutcome
    /\ UNCHANGED <<sargs, sheaders, ssent>>
    /\ UNCHANGED notSearchVars

(* The branch for a name: the pattern listing, ContentDoesNotExist when it is
   empty, the filter on the casefolded name, AmbiguousContentError for more
   than one match, then data[0]['id'], which raises IndexError on an empty
   list. *)
SearchResolve ==
    /\ spc = "resolve"
    /\ ssent' = Append(ssent, [endpoint |-> "_metadata.list", type |-> TABLE,
                               arg |-> sguid])
    /\ LET data == NamedLike(sheaders, sargs.source)
       IN IF sheaders = <<>>
          THEN /\ soutcome' = [kind |-> "ContentDoesNotExist"]
               /\ spc' = "done"
               /\ UNCHANGED sguid
          ELSE IF Len(data) > 1
          THEN /\ soutcome' = [kind |-> "AmbiguousContentError"]
               /\ spc' = "done"
               /\ UNCHANGED sguid
          ELSE IF data = <<>>
          THEN /\ soutcome' = [kind |-> "IndexError"]
               /\ spc' = "done"
               /\ UNCHANGED sguid
          ELSE /\ sguid' = data[1].id
               /\ spc' = "search"
               /\ UNCHANGED soutcome
    /\ UNCHANGED <<sargs, sheaders>>
    /\ UNCHANGED notSearchVars

(* data.searchdata(query_string, data_source_guid=guid); return r.json()['data'] *)
SearchData ==
    /\ spc = "search"
    /\ ssent' = Append(ssent, [endpoint |-> "data.searchdata", type |-> None,
                               arg |-> sguid])
    /\ soutcome' = [kind |-> "returned"]
    /\ spc' = "done"
    /\ UNCHANGED <<sargs, sheaders, sguid>>
    /\ UNCHANGED notSearchVars

NextSearch == SearchCheck \/ SearchResolve \/ SearchData

----------------------------------------------------------------------------
(* Specifications *)

Init == InitBoard /\ IdleAll /\ IdleChunk /\ IdleList /\ IdleSearch

Next == NextBoard

Spec == Init /\ [][Next]_vars

AllInit == IdleBoard /\ InitAll /\ IdleChunk /\ IdleList /\ IdleSearch

SpecAll == AllInit /\ [][NextAll]_vars

ChunkInit == IdleBoard /\ IdleAll /\ InitChunk /\ IdleList /\ IdleSearch

SpecChunk == ChunkInit /\ [][NextChunk]_vars

ListInit == IdleBoard /\ IdleAll /\ IdleChunk /\ InitList /\ IdleSearch

SpecList == ListInit /\ [][NextList]_vars

SearchInit == IdleBoard /\ IdleAll /\ IdleChunk /\ IdleList /\ InitSearch

SpecSearch == SearchInit /\ [][NextSearch]_vars

(* The board while its steps are set up: registration after construction,
   lookup by name, and the skip() that a step calls on the task it looked up. *)
NextItems ==
    \/ \E items \in AssignedLists : AssignWorkItems(items)
    \/ \E task_name \in TaskNames : GetItem(task_name)
    \/ \E i \in 1..Len(work_items) : Skip(i)

SpecItems == Init /\ [][NextItems]_vars

----------------------------------------------------------------------------
(* Properties of the task board *)

Tasks == 1..Len(work_items)

(* Task i is inside a `with` block that has not been left yet. *)
InBlock(i) == \E k \in 1..Len(blocks) : blocks[k] = i

(* The step is the exit of the innermost block, which is task i's. *)
ExitStep(i) ==
    /\ blocks # <<>>
    /\ blocks[Len(blocks)] = i
    /\ blocks' = SubSeq(blocks, 1, Len(blocks) - 1)
    /\ call'.op = "exit"

(* C2: once skip() was called on a task that had not been entered, its status
   is None in every later state, whatever __enter__ and __exit__ calls follow. *)
C2_SkipIsSticky ==
    \A i \in Tasks : cycles[i].skipped_early => work_items[i].status = None

(* C3: when the block of an entered, non-skipped task is left with an
   exception, __exit__ writes the failure glyph, adds the time elapsed since
   the start timestamp to the accumulated duration, marks the task stopped,
   redraws the board from the updated list, and the exception reaches the
   caller. *)
C3_FailurePropagates ==
    [][\A i \in Tasks :
         (ExitStep(i) /\ call'.exc # None /\ ~work_items[i].skipped) =>
            /\ work_items'[i].status = CrossMark
            /\ work_items'[i].total_duration =
                   work_items[i].total_duration + (now - work_items[i].started_at)
            /\ work_items'[i].stopped
            /\ call'.refreshed
            /\ renderable' = Layout(work_items', now')
            /\ call'.raised = call'.exc]_vars

(* A block was left with an exception after time had passed: the task shows
   the failure glyph, has a duration and the caller holds the exception. *)
C3_Witness ==
    /\ call.op = "exit"
    /\ call.exc = "RuntimeError"
    /\ call.raised = "RuntimeError"
    /\ work_items[call.task].status = CrossMark
    /\ work_items[call.task].total_duration > 0
    /\ work_items[call.task].stopped

(* C8: the exit that ends a task's first cycle leaves the duration at the time
   T that passed between __enter__ and __exit__; and while a stopped task is
   neither entered nor exited again the duration keeps its value, the
   accumulated total, however far the clock advances. *)
C8_DurationFrozen ==
    [][\A i \in Tasks :
         /\ (ExitStep(i) /\ cycles[i].enters = 1 /\ cycles[i].exits = 0) =>
                Duration(work_items'[i], now') = now - work_items[i].started_at
         /\ (work_items[i].stopped /\ cycles'[i] = cycles[i]) =>
                /\ Duration(work_items'[i], now') = Duration(work_items[i], now)
                /\ Duration(work_items'[i], now') = work_items'[i].total_duration]_vars

(* A task ran one cycle of length 1 and the clock has moved on since. *)
C8_Witness ==
    \E i \in Tasks :
        /\ cycles[i].enters = 1 /\ cycles[i].exits = 1
        /\ work_items[i].total_duration = 1
        /\ now > work_items[i].started_at + 1
        /\ Duration(work_items[i], now) = 1

(* Task i is running: it is inside an open block and shows the running glyph,
   so its last transition was an __enter__. *)
Running(i) == InBlock(i) /\ work_items[i].status = Fire

(* C9: whenever a task is running, in its first cycle or in a later one, its
   duration is (now - start timestamp) + the accumulated duration. *)
C9_RunningDuration ==
    \A i \in Tasks :
        Running(i) =>
            Duration(work_items[i], now) =
                (now - work_items[i].started_at) + work_items[i].total_duration

RenderedStatus == [i \in 1..Len(renderable) |-> renderable[i][1]]

(* The status of every task of the list, in list order. *)
ListedStatus == [i \in Tasks |-> work_items[i].status]

(* C11: once the board is entered, after every call that returned (the entry
   of the board, a start, a stop with success or failure, a skip) the table
   last rendered has one row per task of the list and shows the status each
   task has now. *)
C11_RefreshAfterTransition ==
    (started /\ call.op \in {"board_enter", "enter", "exit", "skip"}
             /\ call.raised # "AttributeError") =>
        RenderedStatus = ListedStatus

(* C17: every `with task:` on a registered task opens its block: __enter__
   returns, after a refresh of the board, and the task is inside a block that
   an __exit__ will close; a call of __enter__ that raised has not left the
   task with the running glyph. *)
C17_EnterSucceeds ==
    call.op = "enter" =>
        /\ call.raised = None
        /\ call.refreshed
        /\ InBlock(call.task)
        /\ RenderedStatus = ListedStatus

(* C12: every board[task_name] leaves the list, every task of it and the
   rest of the board as they were; when some task of the list carries the name
   it returns a task of the list with that name, and when none does it raises
   KeyError and returns nothing. *)
C12_LookupByName ==
    [][lookup' # lookup =>
         /\ UNCHANGED <<work_items, now, blocks, renderable, started, call, cycles>>
         /\ LET named == {i \in Tasks : work_items[i].name = lookup'.name}
            IN IF named # {}
               THEN lookup'.raised = None /\ lookup'.index \in named
               ELSE lookup'.raised = "KeyError" /\ lookup'.index = 0]_vars

(* The second task of a board was looked up by its name, past a first task of
   another name that had been skipped. *)
C12_Witness ==
    /\ lookup.raised = None
    /\ lookup.index = 2
    /\ Len(work_items) = 2
    /\ work_items[2].name = lookup.name
    /\ work_items[1].name # lookup.name
    /\ work_items[1].skipped

(* C15: no two tasks of the board's list carry the same name. *)
C15_UniqueNames ==
    \A i, j \in Tasks : i # j => work_items[i].name # work_items[j].name

----------------------------------------------------------------------------
(* Properties of all() *)

(* The pages the server cuts a listing of n headers into: the number of
   requests up to and including the first one it answers with isLastBatch. *)
NumPages(n, batchsize, eager) ==
    IF eager
    THEN (IF n = 0 THEN 1 ELSE (n + batchsize - 1) \div batchsize)
    ELSE (n \div batchsize) + 1

RequestsFor(type_) == SelectSeq(requests, LAMBDA r : r.type = type_)

(* The fetched headers that survive the system-content filter. *)
Survivors ==
    SelectSeq(fetched, LAMBDA e : ~args.exclude_system_content
                                  \/ e.raw.authorName \notin SystemAuthors)

Recs(entries) == [k \in 1..Len(entries) |-> entries[k].rec]

LoopsLeft == pc \in {"check", "done"}

(* C1: for every listed type the loop sends one request per page of the
   server's page sequence, the k-th at the start of the k-th page, and none
   after the page flagged isLastBatch; all() terminates: the requests are
   bounded by the pages, and in every state but the final one the next step
   (a page of the current type, or the final check once no type is left) can
   be taken; and once the loops are left every type has been requested exactly
   once per page and the aggregate, which is what all() returns, holds as
   many records as survive the filter on the fetched pages. *)
C1_OneRequestPerPage ==
    /\ \A type_ \in AllTypes :
          LET reqs == RequestsFor(type_)
              pages == NumPages(Len(server.catalog[type_]), args.chunksize,
                                server.eager)
          IN /\ Len(reqs) <= pages
             /\ \A k \in 1..Len(reqs) : reqs[k].offset = (k - 1) * args.chunksize
             /\ (type_ \notin Range(TypesOf(args.include_columns))) => reqs = <<>>
             /\ (LoopsLeft /\ type_ \in Range(TypesOf(args.include_columns)))
                    => Len(reqs) = pages
    /\ pc \in {"loop", "check", "done"}
    /\ pc = "loop" <=> types # <<>>
    /\ Len(content) = Len(Survivors)
    /\ outcome.kind = "returned" => Len(outcome.value) = Len(Survivors)
    /\ LoopsLeft => Len(fetched) =
          Len(server.catalog[PINBOARD]) + Len(server.catalog[QUESTION])
          + Len(server.catalog[TABLE])
          + (IF args.include_columns THEN Len(server.catalog[COLUMN]) ELSE 0)

(* all() ended after a type took several pages, the last of them empty, and
   the filter dropped some of the headers fetched. *)
C1_Witness ==
    /\ pc = "done"
    /\ outcome.kind = "returned"
    /\ \E type_ \in AllTypes :
          /\ Len(RequestsFor(type_)) = 3
          /\ ListPage(server, type_, args.chunksize,
                      RequestsFor(type_)[3].offset).headers = <<>>
    /\ Len(content) > 0
    /\ Len(content) < Len(fetched)

(* C4: when the aggregate is empty after the loops, all() raises
   ContentDoesNotExist and the reason holds the category, 'excluding ' or
   'including ' according to exclude_system_content (and not the other), and
   every tag supplied; when it is not empty, all() returns it. *)
C4_EmptyRaises ==
    pc = "done" =>
        IF Survivors = <<>>
        THEN /\ outcome.kind = "ContentDoesNotExist"
             /\ args.category \in Range(outcome.reason)
             /\ (IF args.exclude_system_content THEN "excluding " ELSE "including ")
                    \in Range(outcome.reason)
             /\ (IF args.exclude_system_content THEN "including " ELSE "excluding ")
                    \notin Range(outcome.reason)
             /\ args.tags.kind # "none" =>
                    Range(args.tags.items) \subseteq Range(outcome.reason)
        ELSE /\ outcome.kind = "returned"
             /\ outcome.value = content
             /\ content # <<>>

(* Headers were fetched, all of them system content, two tags were supplied,
   and all() raised. *)
C4_Witness ==
    /\ pc = "done"
    /\ outcome.kind = "ContentDoesNotExist"
    /\ fetched # <<>>
    /\ Len(args.tags.items) = 2

(* C5: with exclude_system_content the aggregate is exactly the fetched
   records whose authorName is neither 'system' nor 'tsadmin', in fetch
   order; without it, every fetched record, in fetch order. *)
C5_ExactFilter ==
    /\ args.exclude_system_content =>
          content = Recs(SelectSeq(fetched,
                           LAMBDA e : e.raw.authorName \notin {"system", "tsadmin"}))
    /\ ~args.exclude_system_content => content = Recs(fetched)
    /\ outcome.kind = "returned" => outcome.value = content

(* A run that fetched a 'tsadmin' record and then a user record, and returned
   the user record alone. *)
C5_Witness ==
    /\ pc = "done"
    /\ outcome.kind = "returned"
    /\ args.exclude_system_content
    /\ Len(fetched) = 2
    /\ fetched[1].raw.authorName = "tsadmin"
    /\ fetched[2].raw.authorName = "alice"
    /\ outcome.value = <<fetched[2].rec>>

(* C6 as claimed: a column's context is not None only if its owner id is the
   id of a record of a page fetched earlier. *)
C6_ClaimedContext ==
    \A k \in 1..Len(fetched) :
        (fetched[k].type_ = COLUMN /\ fetched[k].rec.context # None) =>
            \E j \in 1..Len(fetched) :
                /\ fetched[j].page < fetched[k].page
                /\ fetched[j].raw.id = fetched[k].raw.owner

(* C6 as amended: for a column whose server record defines no 'context' of its
   own, the context is not None only if the owner id is the id of a record at
   or before the column in fetch order (an earlier page, earlier in the same
   page, or the column itself), and then it is that record's name; a column
   whose owner has not appeared by then gets None. *)
C6_ContextInFetchOrder ==
    \A k \in 1..Len(fetched) :
        (fetched[k].type_ = COLUMN /\ "context" \notin DOMAIN fetched[k].raw) =>
            LET seen == {j \in 1..k : fetched[j].raw.id = fetched[k].raw.owner}
            IN IF seen = {}
               THEN fetched[k].rec.context = None
               ELSE fetched[k].rec.context \in {fetched[j].raw.name : j \in seen}

(* A forward reference: a column fetched before its owner, with context None,
   in a run that reached its end. *)
C6_Witness ==
    /\ pc = "done"
    /\ \E k \in 1..Len(fetched) : \E j \in 1..Len(fetched) :
          /\ k < j
          /\ fetched[k].type_ = COLUMN
          /\ fetched[j].raw.id = fetched[k].raw.owner
          /\ fetched[k].rec.context = None

(* C18: every record all() builds, and so every record it returns, has the
   keys of the server record plus 'type' and 'context'; every key the server
   record defines, 'type' and 'context' included, keeps the server's value;
   a record without a 'type' of its own gets the type being listed; a record
   without a 'context' of its own gets None unless it is a LOGICAL_COLUMN,
   and then None or the name of a tracked header. *)
C18_ServerKeysWin ==
    /\ \A k \in 1..Len(fetched) :
          LET raw == fetched[k].raw
              rec == fetched[k].rec
          IN /\ DOMAIN rec = DOMAIN raw \cup {"type", "context"}
             /\ \A key \in DOMAIN raw : rec[key] = raw[key]
             /\ "type" \notin DOMAIN raw => rec.type = fetched[k].type_
             /\ "context" \notin DOMAIN raw =>
                    IF fetched[k].type_ = COLUMN
                    THEN rec.context \in {None} \cup {track_guids[id] : id \in DOMAIN track_guids}
                    ELSE rec.context = None
    /\ Range(content) \subseteq Range(Recs(fetched))
    /\ outcome.kind = "returned" =>
          /\ outcome.value = content
          /\ \A k \in 1..Len(outcome.value) :
                {"type", "context"} \subseteq DOMAIN outcome.value[k]

(* all() returned a table whose server record carries its subtype as 'type',
   and a column whose server record carries a 'context': both values kept. *)
C18_Witness ==
    /\ pc = "done"
    /\ outcome.kind = "returned"
    /\ \E k \in 1..Len(outcome.value) :
          /\ outcome.value[k].type = "WORKSHEET"
          /\ outcome.value[k].context = None
    /\ \E k \in 1..Len(outcome.value) :
          /\ outcome.value[k].type = COLUMN
          /\ outcome.value[k].context = "server context"

----------------------------------------------------------------------------
(* Properties of the chunked operations *)

CeilDiv(n, k) == (n + k - 1) \div k

(* The requests the operation's own loop has sent to its endpoint. *)
MainRequests == SelectSeq(sent, LAMBDA r : r.endpoint = Endpoint(cop, "main"))

(* C7: over a list of N ids and chunk size K, columns(), permissions() and
   dependents() send exactly ceil(N/K) requests to their endpoint, none when
   N = 0, and return the records of the answers concatenated in request
   order, each answer in the order the server gave it. For
   dependents(include_columns=True) the list chunked is the list of column
   ids that columns() returned. *)
C7_ChunkedRequests ==
    /\ phase = "main" =>
          /\ Len(MainRequests) + Len(todo) =
                 (IF cpc = "start" THEN 0 ELSE CeilDiv(Len(guids), cop.chunksize))
          /\ Len(got) = Len(MainRequests)
    /\ collected = Flatten(got)
    /\ cpc = "done" =>
          /\ Len(MainRequests) = CeilDiv(Len(guids), cop.chunksize)
          /\ guids = <<>> => MainRequests = <<>>
          /\ todo = <<>>

(* An operation over three ids in chunks of two has returned: two requests,
   both answered with records. *)
C7_Witness ==
    /\ cpc = "done"
    /\ Len(guids) = 3
    /\ cop.chunksize = 2
    /\ Len(MainRequests) = 2
    /\ got[1] # <<>>
    /\ got[2] # <<>>
    /\ collected = got[1] \o got[2]

(* C16: the i-th request of the operation's loop carries the ids of the i-th
   chunk of the list, and nothing else; and the list returned is the records
   of each chunk's ids, chunk after chunk. *)
C16_RequestCarriesChunk ==
    (phase = "main" /\ cpc \in {"loop", "done"}) =>
        LET cut == chunks(guids, cop.chunksize)
        IN /\ \A i \in 1..Len(MainRequests) : MainRequests[i].ids = cut[i]
           /\ cpc = "done" =>
                  collected = Flatten([i \in 1..Len(cut) |->
                                          AnswerRecords(cop, "main", cut[i])])

----------------------------------------------------------------------------
(* Properties of the listing loops *)

(* The headers that the requests before the k-th returned for its type. *)
RECURSIVE ReturnedBefore(_, _, _)
ReturnedBefore(reqs, type_, k) ==
    IF k <= 1 THEN 0
    ELSE ReturnedBefore(reqs, type_, k - 1)
         + (IF reqs[k - 1].kind = "page" /\ reqs[k - 1].type = type_
            THEN reqs[k - 1].returned ELSE 0)

(* C13: in get_edoc_object_list() and get_object_ids_with_tags() every request
   of a page carries as offset the number of headers that the earlier pages of
   the same type returned in this run: 0 for the first page of each type. *)
C13_OffsetIsRecordCount ==
    \A k \in 1..Len(drequests) :
        drequests[k].kind = "page" =>
            drequests[k].offset = ReturnedBefore(drequests, drequests[k].type, k)

----------------------------------------------------------------------------
(* Properties of the search *)

SearchRequests == SelectSeq(ssent, LAMBDA r : r.endpoint = "data.searchdata")

(* C14: a call with one keyword, naming the data source by name, ends with
   ContentDoesNotExist when no listed header has that name (case folded), with
   AmbiguousContentError when more than one has, and in both cases without a
   search request; with exactly one it sends the search request with that
   header's id. *)
C14_NameResolution ==
    (spc = "done" /\ sargs.given = 1 /\ ~is_valid_guid(sargs.source)) =>
        LET same == {k \in 1..Len(sheaders) :
                        casefold(sheaders[k].name) = casefold(sargs.source.value)}
        IN /\ same = {} =>
                 soutcome.kind = "ContentDoesNotExist" /\ SearchRequests = <<>>
           /\ Cardinality(same) > 1 =>
                 soutcome.kind = "AmbiguousContentError" /\ SearchRequests = <<>>
           /\ Cardinality(same) = 1 =>
                 /\ soutcome.kind = "returned"
                 /\ Len(SearchRequests) = 1
                 /\ \E k \in same : SearchRequests[1].arg = sheaders[k].id

====
